---- MODULE Spec2Model ----
(***************************************************************************)
(* A model of easylog.Easylog (src/easylog.py): a facade that registers    *)
(* named console and file handlers on one named logger of Python's         *)
(* logging module and forwards five levelled logging calls to it.          *)
(*                                                                         *)
(* Severity strings are modelled as sequences of characters, so that       *)
(* str.lower() and the exact-match lookups are computed, not assumed.      *)
(* Message formats are modelled as the sequence of the record fields they  *)
(* print ('%(levelname)s - %(message)s' is <<"levelname", "message">>).    *)
(* The parts of the logging module the facade calls (getLogger, setLevel,  *)
(* addHandler, Logger.log, Formatter.format) are modelled at the call      *)
(* sites.  I/O errors while writing a record and the logging module's      *)
(* stderr fallback for a logger without handlers are not modelled, and     *)
(* logger names are flat (no dotted parent whose handlers a record would   *)
(* also reach).                                                            *)
(*                                                                         *)
(* One action per method; every method is a function of the whole state    *)
(* (World) to an outcome and a new state.  The specifications SpecNames,   *)
(* SpecLevels, SpecConstruct, SpecFormats and SpecFailures are the same    *)
(* five actions, each with the arguments of one concern: handler names,    *)
(* handler levels, the constructor's severity string, formats, and the     *)
(* ways a registration fails.                                              *)
(***************************************************************************)
EXTENDS Integers, Sequences, FiniteSets, TLC

VARIABLES
    loggerDict,   \* logging's process-wide registry: logger name -> logger
    handlerObjs,  \* the handler objects attached so far; a handler's id is its index
    facades,      \* the Easylog instances constructed so far
    files,        \* the paths FileHandler has opened
    result,       \* the last call: its operation, arguments and outcome
    emitted       \* the lines the last log_* call wrote: <<[handler, line], ...>>

vars == <<loggerDict, handlerObjs, facades, files, result, emitted>>

----------------------------------------------------------------------------
(* Bounds of the model *)

MaxFacades == 2
MaxHandlers == 2
MaxCounter == 2

----------------------------------------------------------------------------
(* logging's levels, as easylog.py names them *)

CRITICAL == 50
ERROR == 40
WARNING == 30
INFO == 20
DEBUG == 10

(* Optional arguments: None, or a value.  One None per argument type. *)
NoneS == [some |-> FALSE, v |-> ""]
NoneL == [some |-> FALSE, v |-> <<>>]
Some(x) == [some |-> TRUE, v |-> x]

(* The outcomes of a call *)
OK == "ok"
InvalidLevelError == "ValueError: 'loglevel' must be one of: ..."
DuplicateNameError == "ValueError: Log name already in use"
UnknownLevelError == "ValueError: Unknown level"
FileOpenError == "OSError"
NoDefinedHandlersError == "NoDefinedHandlersError"
NoHandlersFoundError == "NoHandlersFoundError"
IndexErrorRaised == "IndexError: list index out of range"

----------------------------------------------------------------------------
(* Strings as character sequences *)

UpperCase == <<"A","B","C","D","E","F","G","H","I","J","K","L","M",
               "N","O","P","Q","R","S","T","U","V","W","X","Y","Z">>
LowerCase == <<"a","b","c","d","e","f","g","h","i","j","k","l","m",
               "n","o","p","q","r","s","t","u","v","w","x","y","z">>

(* str.lower(), character by character: an upper-case letter becomes its  *)
(* lower-case letter, any other character stays.                           *)
LowerOf == [c \in {UpperCase[i] : i \in DOMAIN UpperCase} |->
               LowerCase[CHOOSE i \in DOMAIN UpperCase : UpperCase[i] = c]]

lower_char(c) == IF c \in DOMAIN LowerOf THEN LowerOf[c] ELSE c

lower(s) == [i \in 1..Len(s) |-> lower_char(s[i])]

s_critical == <<"c","r","i","t","i","c","a","l">>
s_error == <<"e","r","r","o","r">>
s_warning == <<"w","a","r","n","i","n","g">>
s_info == <<"i","n","f","o">>
s_debug == <<"d","e","b","u","g">>

S_CRITICAL == <<"C","R","I","T","I","C","A","L">>
S_FATAL == <<"F","A","T","A","L">>
S_ERROR == <<"E","R","R","O","R">>
S_WARNING == <<"W","A","R","N","I","N","G">>
S_WARN == <<"W","A","R","N">>
S_INFO == <<"I","N","F","O">>
S_DEBUG == <<"D","E","B","U","G">>
S_NOTSET == <<"N","O","T","S","E","T">>

----------------------------------------------------------------------------
(* Module-level functions of easylog.py *)

(* A conversion that compares the string as given, without lower() *)
_string2loglevel_as_given(loglevel) ==
    IF loglevel = s_critical THEN [raised |-> FALSE, value |-> CRITICAL]
    ELSE IF loglevel = s_error THEN [raised |-> FALSE, value |-> ERROR]
    ELSE IF loglevel = s_warning THEN [raised |-> FALSE, value |-> WARNING]
    ELSE IF loglevel = s_info THEN [raised |-> FALSE, value |-> INFO]
    ELSE IF loglevel = s_debug THEN [raised |-> FALSE, value |-> DEBUG]
    ELSE [raised |-> TRUE, value |-> 0]

_string2loglevel(loglevel) ==
    LET l == lower(loglevel) IN
    IF l = s_critical THEN [raised |-> FALSE, value |-> CRITICAL]
    ELSE IF l = s_error THEN [raised |-> FALSE, value |-> ERROR]
    ELSE IF l = s_warning THEN [raised |-> FALSE, value |-> WARNING]
    ELSE IF l = s_info THEN [raised |-> FALSE, value |-> INFO]
    ELSE IF l = s_debug THEN [raised |-> FALSE, value |-> DEBUG]
    ELSE [raised |-> TRUE, value |-> 0]

ConsoleFormat == <<"levelname", "message">>
FileFormat == <<"asctime", "name", "levelname", "message">>

_default_log_format(handlertype) ==
    IF handlertype = "console" THEN ConsoleFormat
    ELSE IF handlertype = "file" THEN FileFormat
    ELSE IF handlertype = "module" THEN FileFormat
    ELSE <<>>

_logger_record(handler, name, loggertype, loglevel, dateformat) ==
    [handler |-> handler, name |-> name, loggertype |-> loggertype,
     loglevel |-> loglevel, dateformat |-> dateformat]

__name__ == "easylog"

_dateformats(logtype) ==
    IF logtype = "file" THEN "%Y-%m-%dT%H:%M:%S" ELSE "%I:%M:%S %p"

----------------------------------------------------------------------------
(* The logging module, as the facade uses it *)

(* A level as the facade passes it on: the int of the global level, or the *)
(* caller's string untouched.                                              *)
IntLevel(n) == [isint |-> TRUE, n |-> n, s |-> <<>>]
StrLevel(s) == [isint |-> FALSE, n |-> 0, s |-> s]

(* Handler.setLevel's check of its argument: an int is taken as it is, a   *)
(* string must be one of logging's level names, spelled in upper case.     *)
_checkLevel(level) ==
    IF level.isint THEN [raised |-> FALSE, value |-> level.n]
    ELSE IF level.s \in {S_CRITICAL, S_FATAL} THEN [raised |-> FALSE, value |-> CRITICAL]
    ELSE IF level.s = S_ERROR THEN [raised |-> FALSE, value |-> ERROR]
    ELSE IF level.s \in {S_WARNING, S_WARN} THEN [raised |-> FALSE, value |-> WARNING]
    ELSE IF level.s = S_INFO THEN [raised |-> FALSE, value |-> INFO]
    ELSE IF level.s = S_DEBUG THEN [raised |-> FALSE, value |-> DEBUG]
    ELSE IF level.s = S_NOTSET THEN [raised |-> FALSE, value |-> 0]
    ELSE [raised |-> TRUE, value |-> 0]

(* The level name a record of the five log_* calls prints *)
getLevelName(levelno) ==
    IF levelno = CRITICAL THEN "CRITICAL"
    ELSE IF levelno = ERROR THEN "ERROR"
    ELSE IF levelno = WARNING THEN "WARNING"
    ELSE IF levelno = INFO THEN "INFO"
    ELSE "DEBUG"

(* time.strftime(datefmt) of the record's creation time, at a fixed instant *)
strftime(datefmt) ==
    IF datefmt = "%Y-%m-%dT%H:%M:%S" THEN "2018-01-02T15:04:05"
    ELSE IF datefmt = "%I:%M:%S %p" THEN "03:04:05 PM"
    ELSE IF datefmt = "%H:%M" THEN "15:04"
    ELSE datefmt

Formatter(fmt, datefmt) == [fmt |-> fmt, datefmt |-> datefmt]

(* Formatter.format: the fields of the format, in order, joined by ' - ' *)
format(formatter, name, levelno, msg) ==
    [i \in 1..Len(formatter.fmt) |->
        LET field == formatter.fmt[i] IN
        IF field = "asctime" THEN strftime(formatter.datefmt)
        ELSE IF field = "name" THEN name
        ELSE IF field = "levelname" THEN getLevelName(levelno)
        ELSE msg]

NoFormatter == Formatter(<<>>, "")

(* StreamHandler(stream=None) writes to sys.stderr *)
StreamHandler(stream) ==
    [cls |-> "StreamHandler", target |-> IF stream.some THEN stream.v ELSE "stderr",
     level |-> 0, formatter |-> NoFormatter]

(* The paths open() accepts *)
Openable == {"x.log"}

FileHandler(logpath) ==
    [cls |-> "FileHandler", target |-> logpath, level |-> 0, formatter |-> NoFormatter]

NoLogger == [exists |-> FALSE, level |-> 0, handlers |-> <<>>]

(* Logger.getEffectiveLevel: the logger's own level, or the root's WARNING *)
getEffectiveLevel(logger) == IF logger.level # 0 THEN logger.level ELSE WARNING

----------------------------------------------------------------------------
(* The Easylog class *)

(* The program's state as one value, so that a method is a function of it *)
World == [loggerDict |-> loggerDict, handlerObjs |-> handlerObjs,
          facades |-> facades, files |-> files]

handler_names(f) == [i \in 1..Len(f._handlers) |-> f._handlers[i].name]

Elements(seq) == {seq[i] : i \in 1..Len(seq)}

(* A registration that never finds a name in use *)
name_in_use_never(f, logname) == FALSE

(* line 109: logname in self.handler_names() *)
name_in_use(f, logname) == logname \in Elements(handler_names(f))

NoControls == [logtype |-> "", logname |-> "", loglevel |-> IntLevel(0),
               logformat |-> NoFormatter, dateformat |-> ""]

_log_controls(w, self, logtype, logname, loglevel, logformat, dateformat) ==
    LET f == w.facades[self]
        name == IF ~logname.some
                THEN logtype \o ToString(f._namecounters[logtype])
                ELSE logname.v
        w1 == IF ~logname.some
              THEN [w EXCEPT !.facades[self]._namecounters[logtype] = @ + 1]
              ELSE w
        level == IF ~loglevel.some THEN IntLevel(f._globallevel) ELSE StrLevel(loglevel.v)
        fmt == IF ~logformat.some THEN _default_log_format(logtype) ELSE logformat.v
        datefmt == IF ~dateformat.some THEN _dateformats(logtype) ELSE dateformat.v
    IN  IF logname.some /\ name_in_use(f, logname.v)
        THEN [err |-> DuplicateNameError, w |-> w, log_controls |-> NoControls]
        ELSE [err |-> OK, w |-> w1,
              log_controls |-> [logtype |-> logtype, logname |-> name,
                                loglevel |-> level,
                                logformat |-> Formatter(fmt, datefmt),
                                dateformat |-> datefmt]]

(* Logger.addHandler: appends unless the very handler is attached already; *)
(* log_handler is a new object here, stored under the next free id.        *)
addHandler(w, loggername, log_handler) ==
    [w EXCEPT !.handlerObjs = Append(@, log_handler),
              !.loggerDict[loggername].handlers = Append(@, Len(w.handlerObjs) + 1)]

(* A registration that attaches the handler before it sets its level *)
_add_logger_attach_first(w, self, log_handler, log_controls) ==
    LET lv == _checkLevel(log_controls.loglevel)
        h == [log_handler EXCEPT !.level = lv.value,
                                 !.formatter = log_controls.logformat]
        w1 == addHandler(w, w.facades[self]._loggername, h)
        log_rec == _logger_record(Len(w1.handlerObjs), log_controls.logname,
                                  log_controls.logtype, log_controls.loglevel,
                                  log_controls.dateformat)
    IN  IF lv.raised
        THEN [err |-> UnknownLevelError, w |-> w1]
        ELSE [err |-> OK, w |-> [w1 EXCEPT !.facades[self]._handlers = Append(@, log_rec)]]

_add_logger(w, self, log_handler, log_controls) ==
    LET lv == _checkLevel(log_controls.loglevel)
        h == [log_handler EXCEPT !.level = lv.value,
                                 !.formatter = log_controls.logformat]
        w1 == addHandler(w, w.facades[self]._loggername, h)
        log_rec == _logger_record(Len(w1.handlerObjs), log_controls.logname,
                                  log_controls.logtype, log_controls.loglevel,
                                  log_controls.dateformat)
    IN  IF lv.raised
        THEN [err |-> UnknownLevelError, w |-> w]
        ELSE [err |-> OK, w |-> [w1 EXCEPT !.facades[self]._handlers = Append(@, log_rec)]]

add_consolelogger(w, self, logname, loglevel, logformat, stream, dateformat) ==
    LET lc == _log_controls(w, self, "console", logname, loglevel, logformat, dateformat)
    IN  IF lc.err # OK
        THEN [err |-> lc.err, w |-> lc.w]
        ELSE _add_logger(lc.w, self, StreamHandler(stream), lc.log_controls)

(* line 153 passes 'console', not 'file', to _log_controls *)
add_filelogger(w, self, logpath, logname, loglevel, logformat, dateformat) ==
    LET lc == _log_controls(w, self, "console", logname, loglevel, logformat, dateformat)
        w1 == [lc.w EXCEPT !.files = @ \cup {logpath}]
    IN  IF lc.err # OK
        THEN [err |-> lc.err, w |-> lc.w]
        ELSE IF logpath \notin Openable
        THEN [err |-> FileOpenError, w |-> lc.w]
        ELSE _add_logger(w1, self, FileHandler(logpath), lc.log_controls)

(* A constructor that leaves the logger's level as getLogger returns it *)
_init_logger_level_unset(w, name) ==
    [w EXCEPT !.loggerDict[name].exists = TRUE]

(* lines 87-88: logging.getLogger(name), then setLevel(logging.DEBUG) *)
_init_logger(w, name) ==
    [w EXCEPT !.loggerDict[name].exists = TRUE,
              !.loggerDict[name].level = DEBUG]

__init__(w, loggername, globallevel, create_console) ==
    LET lv == _string2loglevel(globallevel)
        name == IF ~loggername.some THEN __name__ ELSE loggername.v
        self == Len(w.facades) + 1
        f == [_loggername |-> name, _globallevel |-> lv.value,
              _namecounters |-> [file |-> 0, console |-> 0],
              _handlers |-> <<>>]
        w1 == _init_logger([w EXCEPT !.facades = Append(@, f)], name)
    IN  IF lv.raised
        THEN [err |-> InvalidLevelError, w |-> w]
        ELSE IF create_console
        THEN add_consolelogger(w1, self, NoneS, NoneL, NoneL, NoneS, NoneS)
        ELSE [err |-> OK, w |-> w1]

set_logformat(w, self, handlername, fmt, dateformat) ==
    LET f == w.facades[self]
        handler_records == SelectSeq(f._handlers, LAMBDA a_handler : a_handler.name = handlername)
    IN  IF f._handlers # <<>>
        THEN [err |-> NoDefinedHandlersError, w |-> w]
        ELSE IF handler_records # <<>>
        THEN [err |-> NoHandlersFoundError, w |-> w]
        ELSE [err |-> IndexErrorRaised, w |-> w]

(* Logger.log at levelno: the logger's own threshold, then each attached   *)
(* handler in order, each filtering by its own level.                      *)
callHandlers(w, name, levelno, msg) ==
    LET logger == w.loggerDict[name]
        admits(id) == levelno >= w.handlerObjs[id].level
        line(id) == [handler |-> id,
                     line |-> format(w.handlerObjs[id].formatter, name, levelno, msg)]
        passing == SelectSeq(logger.handlers, admits)
    IN  IF levelno >= getEffectiveLevel(logger)
        THEN [i \in 1..Len(passing) |-> line(passing[i])]
        ELSE <<>>

log_at(w, self, levelno, msg) == callHandlers(w, w.facades[self]._loggername, levelno, msg)

----------------------------------------------------------------------------
(* The calls a program makes *)

LoggerNames == {__name__, "app"}

(* The arguments of a registration call; a keyword argument left out is    *)
(* None, and logpath is add_filelogger's alone.                            *)
NoArgs == [logpath |-> "x.log", logname |-> NoneS, loglevel |-> NoneL,
           logformat |-> NoneL, stream |-> NoneS, dateformat |-> NoneS]

NoResult == [op |-> "", self |-> 0, err |-> OK, args |-> NoArgs,
             create_console |-> FALSE, levelno |-> 0, msg |-> ""]

Init ==
    /\ loggerDict = [n \in LoggerNames |-> NoLogger]
    /\ handlerObjs = <<>>
    /\ facades = <<>>
    /\ files = {}
    /\ result = NoResult
    /\ emitted = <<>>

Returns(r) ==
    /\ loggerDict' = r.w.loggerDict
    /\ handlerObjs' = r.w.handlerObjs
    /\ facades' = r.w.facades
    /\ files' = r.w.files

(* An auto-named registration advances a name counter, which the model caps *)
CounterRoom(self, logname) ==
    logname.some \/ \A t \in {"console", "file"} : facades[self]._namecounters[t] < MaxCounter

(* Easylog(loggername, globallevel, create_console) *)
Construct(loggername, globallevel, create_console) ==
    /\ Len(facades) < MaxFacades
    /\ create_console => Len(handlerObjs) < MaxHandlers
    /\ \E r \in {__init__(World, loggername, globallevel, create_console)} :
           /\ Returns(r)
           /\ result' = [NoResult EXCEPT !.op = "__init__",
                            !.self = IF r.err = OK THEN Len(facades) + 1 ELSE 0,
                            !.err = r.err,
                            !.args = [NoArgs EXCEPT !.logname = loggername,
                                                    !.loglevel = Some(globallevel)],
                            !.create_console = create_console]
    /\ emitted' = <<>>

(* self.add_consolelogger(logname, loglevel, logformat, stream, dateformat) *)
AddConsole(self, a) ==
    /\ Len(handlerObjs) < MaxHandlers
    /\ CounterRoom(self, a.logname)
    /\ \E r \in {add_consolelogger(World, self, a.logname, a.loglevel, a.logformat,
                                  a.stream, a.dateformat)} :
           /\ Returns(r)
           /\ result' = [NoResult EXCEPT !.op = "add_consolelogger", !.self = self,
                            !.err = r.err, !.args = a]
    /\ emitted' = <<>>

(* self.add_filelogger(logpath, logname, loglevel, logformat, dateformat) *)
AddFile(self, a) ==
    /\ Len(handlerObjs) < MaxHandlers
    /\ CounterRoom(self, a.logname)
    /\ \E r \in {add_filelogger(World, self, a.logpath, a.logname, a.loglevel, a.logformat,
                               a.dateformat)} :
           /\ Returns(r)
           /\ result' = [NoResult EXCEPT !.op = "add_filelogger", !.self = self,
                            !.err = r.err, !.args = a]
    /\ emitted' = <<>>

(* self.set_logformat(handlername, fmt, dateformat) *)
SetLogformat(self, handlername, fmt, dateformat) ==
    /\ \E r \in {set_logformat(World, self, handlername, fmt, dateformat)} :
           /\ Returns(r)
           /\ result' = [NoResult EXCEPT !.op = "set_logformat", !.self = self,
                            !.err = r.err,
                            !.args = [NoArgs EXCEPT !.logname = Some(handlername),
                                                    !.logformat = Some(fmt),
                                                    !.dateformat = dateformat]]
    /\ emitted' = <<>>

(* self.log_critical(msg) .. self.log_debug(msg) *)
Log(self, levelno, msg) ==
    /\ emitted' = log_at(World, self, levelno, msg)
    /\ result' = [NoResult EXCEPT !.op = "log", !.self = self, !.levelno = levelno,
                     !.msg = msg]
    /\ UNCHANGED <<loggerDict, handlerObjs, facades, files>>

(* The calls, with their arguments drawn from the given sets *)
Calls(loggernames, globallevels, consoleargs, fileargs, handlernames, dateformats, severities) ==
    \/ \E n \in loggernames, l \in globallevels, c \in BOOLEAN : Construct(n, l, c)
    \/ \E self \in 1..Len(facades), a \in consoleargs : AddConsole(self, a)
    \/ \E self \in 1..Len(facades), a \in fileargs : AddFile(self, a)
    \/ \E self \in 1..Len(facades), n \in handlernames, d \in dateformats :
          SetLogformat(self, n, <<"asctime", "message">>, d)
    \/ \E self \in 1..Len(facades), l \in severities : Log(self, l, "hello")

s_verbose == <<"v","e","r","b","o","s","e">>
s_Debug == <<"D","e","b","u","g">>
Severities == {CRITICAL, ERROR, WARNING, INFO, DEBUG}

(* Names: explicit and auto-generated handler names, on one or two loggers *)
NameArgs == {NoArgs, [NoArgs EXCEPT !.logname = Some("console0")]}
NextNames ==
    Calls({NoneS, Some("app")}, {s_info}, NameArgs, NameArgs, {"console0"}, {NoneS}, {INFO})
SpecNames == Init /\ [][NextNames]_vars

(* Levels: the severity given at registration, and the filtering it gives *)
LevelArgs == {NoArgs,
              [NoArgs EXCEPT !.logname = Some("errors"), !.loglevel = Some(s_error)],
              [NoArgs EXCEPT !.logname = Some("debug"), !.loglevel = Some(s_Debug)],
              [NoArgs EXCEPT !.logname = Some("verbose"), !.loglevel = Some(s_verbose)]}
NextLevels ==
    Calls({NoneS, Some("app")}, {S_WARNING}, LevelArgs,
          {[NoArgs EXCEPT !.loglevel = Some(S_DEBUG)],
           [NoArgs EXCEPT !.logname = Some("errors"), !.loglevel = Some(s_error)]},
          {"console0"}, {NoneS}, Severities)
SpecLevels == Init /\ [][NextLevels]_vars

(* Construction: the global severity string *)
GlobalLevelArgs ==
    {s_critical, <<"C","r","i","t","i","c","a","l">>,
     s_error, S_ERROR,
     s_warning, <<"W","a","r","n","i","n","g">>,
     s_info, S_INFO,
     s_debug, <<"d","e","b","u","G">>,
     s_verbose, S_WARN, <<"i","n","f","o"," ">>}
NextConstruct ==
    Calls({NoneS}, GlobalLevelArgs, {NoArgs}, {NoArgs}, {"console0"}, {NoneS}, {INFO})
SpecConstruct == Init /\ [][NextConstruct]_vars

(* Formats: the message and date formats of a handler *)
FormatArgs == {NoArgs, [NoArgs EXCEPT !.logformat = Some(<<"asctime", "message">>)],
               [NoArgs EXCEPT !.logformat = Some(<<"asctime", "message">>),
                              !.dateformat = Some("%H:%M")]}
NextFormats ==
    Calls({NoneS}, {s_info}, FormatArgs \cup {[NoArgs EXCEPT !.stream = Some("stdout")]},
          FormatArgs, {"console0", "errors"}, {NoneS, Some("%H:%M")}, {INFO})
SpecFormats == Init /\ [][NextFormats]_vars

(* Failures: a name in use, an unknown level, a path that cannot be opened *)
NextFailures ==
    Calls({NoneS}, {s_info, s_verbose},
          {NoArgs, [NoArgs EXCEPT !.logname = Some("verbose"), !.loglevel = Some(s_verbose)]},
          {[NoArgs EXCEPT !.logname = Some("console0")],
           [NoArgs EXCEPT !.logname = Some("errors"), !.logpath = "/nodir/x.log"],
           [NoArgs EXCEPT !.loglevel = Some(s_verbose)]},
          {"console0"}, {NoneS}, {INFO})
SpecFailures == Init /\ [][NextFailures]_vars

----------------------------------------------------------------------------
(* What the properties speak of *)

Registrations == {"add_consolelogger", "add_filelogger"}

(* The facade the last call was made on, and the record it appended last *)
Self == facades[result.self]
LastRecord == Self._handlers[Len(Self._handlers)]

(* The handlers attached to logger n, and those the facades on n record *)
Attached(n) == Elements(loggerDict[n].handlers)
Recorded(n) ==
    UNION {{facades[i]._handlers[j].handler : j \in 1..Len(facades[i]._handlers)} :
             i \in {k \in 1..Len(facades) : facades[k]._loggername = n}}
RecordedBy(f) == {f._handlers[j].handler : j \in 1..Len(f._handlers)}

(* How many lines of the last log_* call went to handler id *)
EmittedOn(id) == Cardinality({i \in 1..Len(emitted) : emitted[i].handler = id})

(* The five severities and their ordinals, as the specification lists them *)
SeverityNames == {s_critical, s_error, s_warning, s_info, s_debug}
Ordinal(name) ==
    CASE name = s_debug -> DEBUG
      [] name = s_info -> INFO
      [] name = s_warning -> WARNING
      [] name = s_error -> ERROR
      [] name = s_critical -> CRITICAL

----------------------------------------------------------------------------
(* C1: handler_names() of a facade never holds the same name twice,        *)
(* whatever mix of explicit and auto-generated names was registered.       *)
C1_UniqueNames ==
    \A i \in 1..Len(facades) :
        LET names == handler_names(facades[i])
        IN  \A j, k \in 1..Len(names) : j # k => names[j] # names[k]

(* C2: a registration given one of the five severity names, in any letter  *)
(* case, succeeds with that severity's ordinal as the handler's level;     *)
(* given none, the handler's level is the facade's global level; given any *)
(* other string, it fails with the invalid-level error.                    *)
C2_SeverityResolution ==
    (result.op \in Registrations /\ result.err # DuplicateNameError) =>
        LET given == result.args.loglevel
        IN  IF ~given.some
            THEN /\ result.err = OK
                 /\ handlerObjs[LastRecord.handler].level = Self._globallevel
            ELSE IF lower(given.v) \in SeverityNames
            THEN /\ result.err = OK
                 /\ handlerObjs[LastRecord.handler].level = Ordinal(lower(given.v))
            ELSE result.err \in {InvalidLevelError, UnknownLevelError}

(* C3: a logger a facade was constructed on has the level DEBUG, and a     *)
(* log_* call writes one line on each handler attached to the logger whose *)
(* level is at or below the call's severity, and none on any other.        *)
C3_PerHandlerFiltering ==
    /\ \A n \in LoggerNames : loggerDict[n].exists => loggerDict[n].level = DEBUG
    /\ result.op = "log" =>
          \A id \in 1..Len(handlerObjs) :
              EmittedOn(id) =
                  IF /\ id \in Attached(Self._loggername)
                     /\ result.levelno >= handlerObjs[id].level
                  THEN 1 ELSE 0

(* An INFO call written by one attached handler and filtered by another *)
C3_Witness ==
    /\ result.op = "log"
    /\ result.levelno = INFO
    /\ \E id \in Attached(Self._loggername) : EmittedOn(id) = 1
    /\ \E id \in Attached(Self._loggername) : EmittedOn(id) = 0

(* Each logger has attached exactly the handlers its facades record *)
AttachedIffRecorded == \A n \in LoggerNames : Attached(n) = Recorded(n)

(* C4: after every call the handlers attached to a logger are those its    *)
(* facades record, and a registration either succeeds, attaching one new   *)
(* handler and appending its one record, or fails and changes neither the  *)
(* attached handlers nor the records; so does a construction, which        *)
(* registers one console handler when asked to and none otherwise.         *)
C4_AllOrNothing ==
    [][/\ AttachedIffRecorded'
       /\ result'.op \in Registrations =>
             LET self == result'.self
                 n == facades[self]._loggername
             IN  IF result'.err = OK
                 THEN /\ handlerObjs' = Append(handlerObjs, handlerObjs'[Len(handlerObjs')])
                      /\ loggerDict'[n].handlers =
                            Append(loggerDict[n].handlers, Len(handlerObjs'))
                      /\ \A m \in LoggerNames \ {n} :
                            loggerDict'[m].handlers = loggerDict[m].handlers
                      /\ Len(facades'[self]._handlers) = Len(facades[self]._handlers) + 1
                      /\ SubSeq(facades'[self]._handlers, 1, Len(facades[self]._handlers))
                            = facades[self]._handlers
                      /\ facades'[self]._handlers[Len(facades'[self]._handlers)].handler
                            = Len(handlerObjs')
                      /\ \A i \in 1..Len(facades) :
                            i # self => facades'[i]._handlers = facades[i]._handlers
                 ELSE /\ handlerObjs' = handlerObjs
                      /\ \A m \in LoggerNames :
                            loggerDict'[m].handlers = loggerDict[m].handlers
                      /\ \A i \in 1..Len(facades) :
                            facades'[i]._handlers = facades[i]._handlers
       /\ (result'.op = "__init__" /\ result'.err # OK) =>
             /\ handlerObjs' = handlerObjs
             /\ facades' = facades
             /\ \A m \in LoggerNames : loggerDict'[m].handlers = loggerDict[m].handlers
       /\ (result'.op = "__init__" /\ result'.err = OK) =>
             LET registered == IF result'.create_console THEN 1 ELSE 0
             IN  /\ Len(handlerObjs') = Len(handlerObjs) + registered
                 /\ Len(facades'[result'.self]._handlers) = registered
                 /\ SubSeq(facades', 1, Len(facades)) = facades
      ]_vars

(* A file registration that failed at setLevel, after its handler was built *)
(* and its file opened, on a facade that has a handler                      *)
C4_Witness ==
    /\ result.op = "add_filelogger"
    /\ result.err = UnknownLevelError
    /\ result.args.logpath \in files
    /\ Self._handlers # <<>>

(* C5: a registration with an explicit name that handler_names() already   *)
(* holds fails with the duplicate-name error and leaves handler_names()    *)
(* of every facade as it was.                                              *)
C5_DuplicateName ==
    [][(/\ result'.op \in Registrations
        /\ result'.args.logname.some
        /\ result'.args.logname.v \in Elements(handler_names(facades[result'.self]))) =>
           /\ result'.err = DuplicateNameError
           /\ Len(facades') = Len(facades)
           /\ \A i \in 1..Len(facades) :
                 handler_names(facades'[i]) = handler_names(facades[i])
      ]_vars

(* A file registration refused for its name, on a facade with a handler *)
C5_Witness ==
    /\ result.op = "add_filelogger"
    /\ result.err = DuplicateNameError
    /\ result.args.logname = Some("console0")
    /\ handler_names(Self) # <<>>

(* C6: set_logformat succeeds when a handler has the name, putting the new *)
(* format on it with the recorded date format when none is given; it fails *)
(* with NoDefinedHandlersError only when nothing is registered, and with   *)
(* NoHandlersFoundError when handlers are registered but none has the name.*)
C6_SetLogformat ==
    result.op = "set_logformat" =>
        LET name == result.args.logname.v
            matching == SelectSeq(Self._handlers, LAMBDA rec : rec.name = name)
        IN  IF matching # <<>>
            THEN /\ result.err = OK
                 /\ handlerObjs[matching[1].handler].formatter =
                       Formatter(result.args.logformat.v,
                                 IF result.args.dateformat.some
                                 THEN result.args.dateformat.v
                                 ELSE matching[1].dateformat)
            ELSE IF Self._handlers = <<>>
            THEN result.err = NoDefinedHandlersError
            ELSE result.err = NoHandlersFoundError

(* C7: a file handler registered without a format and a date format has    *)
(* the file defaults: its lines are timestamp, logger name, level, message *)
(* with an ISO-like timestamp, and its record's type is file.              *)
C7_FileDefaults ==
    (/\ result.op = "add_filelogger"
     /\ result.err = OK
     /\ ~result.args.logformat.some
     /\ ~result.args.dateformat.some) =>
        LET h == handlerObjs[LastRecord.handler]
        IN  /\ h.formatter.fmt = <<"asctime", "name", "levelname", "message">>
            /\ h.formatter.datefmt = "%Y-%m-%dT%H:%M:%S"
            /\ format(h.formatter, Self._loggername, INFO, "hello")
                  = <<"2018-01-02T15:04:05", Self._loggername, "INFO", "hello">>
            /\ LastRecord.loggertype = "file"

(* C8: auto-generated names are the type and its own counter, from 0: the  *)
(* constructor's console is console0, an auto-named console registration   *)
(* is console<k> after k auto-named ones, and a facade's first auto-named  *)
(* file registration is file0 however many console handlers it has.        *)
C8_AutoNames ==
    /\ (result.op = "__init__" /\ result.err = OK /\ result.create_console) =>
          handler_names(Self) = <<"console0">>
    /\ (result.op = "add_consolelogger" /\ result.err = OK /\ ~result.args.logname.some) =>
          LastRecord.name = "console" \o ToString(Self._namecounters["console"] - 1)
    /\ (/\ result.op = "add_filelogger" /\ result.err = OK /\ ~result.args.logname.some
        /\ Cardinality({id \in RecordedBy(Self) : handlerObjs[id].cls = "FileHandler"}) = 1) =>
          LastRecord.name = "file0"

(* C9: construction with one of the five severity names in any letter case *)
(* succeeds and globallevel is that severity's ordinal, with debug < info  *)
(* < warning < error < critical; with any other string it fails with the   *)
(* invalid-level error and creates no facade, logger, handler or record.   *)
C9_Construction ==
    [][result'.op = "__init__" =>
          LET given == result'.args.loglevel.v
          IN  IF lower(given) \in SeverityNames
              THEN /\ result'.err = OK
                   /\ Len(facades') = Len(facades) + 1
                   /\ facades'[Len(facades')]._globallevel = Ordinal(lower(given))
                   /\ Ordinal(s_debug) < Ordinal(s_info)
                   /\ Ordinal(s_info) < Ordinal(s_warning)
                   /\ Ordinal(s_warning) < Ordinal(s_error)
                   /\ Ordinal(s_error) < Ordinal(s_critical)
              ELSE /\ result'.err = InvalidLevelError
                   /\ UNCHANGED <<loggerDict, handlerObjs, facades, files>>
      ]_vars

(* A facade constructed with a severity spelled in mixed case *)
C9_Witness ==
    /\ result.op = "__init__"
    /\ result.err = OK
    /\ result.args.loglevel.v = <<"C","r","i","t","i","c","a","l">>
    /\ Self._globallevel = CRITICAL

(* C10: the handlers attached to a facade's logger are the handlers of the *)
(* facade's own records, and a log_* call on it writes once on each of     *)
(* those it writes on, and on no other.                                    *)
C10_RecordsMirrorLogger ==
    /\ \A i \in 1..Len(facades) :
          Attached(facades[i]._loggername) = RecordedBy(facades[i])
    /\ result.op = "log" =>
          \A id \in 1..Len(handlerObjs) :
              EmittedOn(id) <= (IF id \in RecordedBy(Self) THEN 1 ELSE 0)

====
